---- MODULE Spec2Model ----
(***************************************************************************)
(* Bounded-window reader (struct Input) and QuickTime box scanner of       *)
(* src/main.rs.                                                            *)
(*                                                                         *)
(* A u64 is kept at its full width as four 16-bit limbs, most significant  *)
(* first: <<a, b, c, d>> stands for a*2^48 + b*2^32 + c*2^16 + d.  The     *)
(* build profile decides what an overflowing `+` or `-` does: with         *)
(* overflow checks (debug) it panics, without (release) it wraps.          *)
(***************************************************************************)
EXTENDS Integers, Sequences, FiniteSets, TLC

VARIABLES
    layout,           \* the boxes the store's bytes were written from, if any (input)
    file,             \* the backing store's bytes (File)
    fpos,             \* the open file's position (kernel state of &File), a u64
    overflow_checks,  \* build profile: TRUE = arithmetic overflow panics, FALSE = wraps
    wins,             \* the Input values alive: sequence of [offset, limit, cursor]
    scan,             \* the running quicktime_scan_for_box call, if any
    last              \* the last call made and how it ended

vars == <<layout, file, fpos, overflow_checks, wins, scan, last>>

-----------------------------------------------------------------------------
(* u64 arithmetic on limbs *)

Limb == 65536

U64(n) == <<0, 0, n \div Limb, n % Limb>>

U64Max == <<Limb - 1, Limb - 1, Limb - 1, Limb - 1>>

\* x + y: the wrapped sum and whether it overflowed 64 bits
AddU64(x, y) ==
    LET s4 == x[4] + y[4]
        s3 == x[3] + y[3] + (s4 \div Limb)
        s2 == x[2] + y[2] + (s3 \div Limb)
        s1 == x[1] + y[1] + (s2 \div Limb)
    IN  [val |-> <<s1 % Limb, s2 % Limb, s3 % Limb, s4 % Limb>>,
         overflow |-> s1 >= Limb]

\* x - y: the wrapped difference and whether it went below zero
SubU64(x, y) ==
    LET d4 == x[4] - y[4]
        b4 == IF d4 < 0 THEN 1 ELSE 0
        d3 == x[3] - y[3] - b4
        b3 == IF d3 < 0 THEN 1 ELSE 0
        d2 == x[2] - y[2] - b3
        b2 == IF d2 < 0 THEN 1 ELSE 0
        d1 == x[1] - y[1] - b2
    IN  [val |-> <<(d1 + Limb) % Limb, (d2 + Limb) % Limb,
                   (d3 + Limb) % Limb, (d4 + Limb) % Limb>>,
         overflow |-> d1 < 0]

LtU64(x, y) ==
    \/ x[1] < y[1]
    \/ x[1] = y[1] /\ x[2] < y[2]
    \/ x[1] = y[1] /\ x[2] = y[2] /\ x[3] < y[3]
    \/ x[1] = y[1] /\ x[2] = y[2] /\ x[3] = y[3] /\ x[4] < y[4]

LeU64(x, y) == x = y \/ LtU64(x, y)

\* a u64 below 2^31 as a number
ToNat(x) == x[3] * Limb + x[4]

IsSmall(x) == x[1] = 0 /\ x[2] = 0 /\ x[3] < Limb \div 2

-----------------------------------------------------------------------------
(* integers from bytes *)

u32_from_be_bytes(buf) == <<0, 0, buf[1] * 256 + buf[2], buf[3] * 256 + buf[4]>>

u32_from_le_bytes(buf) == <<0, 0, buf[4] * 256 + buf[3], buf[2] * 256 + buf[1]>>

u64_from_be_bytes(buf) ==
    <<buf[1] * 256 + buf[2], buf[3] * 256 + buf[4],
      buf[5] * 256 + buf[6], buf[7] * 256 + buf[8]>>

u64_from_le_bytes(buf) ==
    <<buf[8] * 256 + buf[7], buf[6] * 256 + buf[5],
      buf[4] * 256 + buf[3], buf[2] * 256 + buf[1]>>

-----------------------------------------------------------------------------
(* UTF-8 validation, as String::from_utf8 does it inside read_to_string *)

IsCont(b) == b >= 128 /\ b <= 191

RECURSIVE ValidUtf8From(_, _)
ValidUtf8From(s, i) ==
    IF i > Len(s) THEN TRUE
    ELSE LET b == s[i]
             has(k) == i + k <= Len(s)
         IN  IF b <= 127 THEN ValidUtf8From(s, i + 1)
             ELSE IF b >= 194 /\ b <= 223
                  THEN has(1) /\ IsCont(s[i + 1]) /\ ValidUtf8From(s, i + 2)
             ELSE IF b >= 224 /\ b <= 239
                  THEN /\ has(2)
                       /\ IsCont(s[i + 1])
                       /\ (b = 224 => s[i + 1] >= 160)
                       /\ (b = 237 => s[i + 1] <= 159)
                       /\ IsCont(s[i + 2])
                       /\ ValidUtf8From(s, i + 3)
             ELSE IF b >= 240 /\ b <= 244
                  THEN /\ has(3)
                       /\ IsCont(s[i + 1])
                       /\ (b = 240 => s[i + 1] >= 144)
                       /\ (b = 244 => s[i + 1] <= 143)
                       /\ IsCont(s[i + 2])
                       /\ IsCont(s[i + 3])
                       /\ ValidUtf8From(s, i + 4)
             ELSE FALSE

ValidUtf8(s) == ValidUtf8From(s, 1)

-----------------------------------------------------------------------------
(* the backing store: a file read and repositioned through &File *)

\* the bytes a read of up to n bytes at position p produces (none at or past the end)
FileBytes(f, p, n) ==
    IF IsSmall(p) /\ ToNat(p) < Len(f)
    THEN LET a == ToNat(p)
             avail == Len(f) - a
             k == IF IsSmall(n) /\ ToNat(n) < avail THEN ToNat(n) ELSE avail
         IN  SubSeq(f, a + 1, a + k)
    ELSE <<>>

\* File::read_exact: all n bytes or an error, the position moved past what was read
read_exact(f, p, n) ==
    LET got == FileBytes(f, p, U64(n))
    IN  [ok |-> Len(got) = n,
         buf |-> got,
         fpos |-> AddU64(p, U64(Len(got))).val]

\* File::take(len).read_to_string: reads to len bytes or the end of the file, whichever
\* comes first, then validates the bytes as UTF-8
read_to_string(f, p, len) ==
    LET got == FileBytes(f, p, len)
    IN  [ok |-> ValidUtf8(got),
         read |-> Len(got),
         buf |-> got,
         fpos |-> AddU64(p, U64(Len(got))).val]

\* the largest offset the file system positions a file at: 2^44 - 4096 (ext4 with
\* 4 KiB blocks)
MaxOffset == <<0, 4095, 65535, 61440>>

\* File::seek(SeekFrom::Start(target)): the OS refuses (EINVAL) a target beyond the
\* file system's largest offset, and with it every target from 2^63 on, negative as
\* the i64 it is handed over as
file_seek(target) ==
    [ok |-> LeU64(target, MaxOffset), fpos |-> target]

-----------------------------------------------------------------------------
(* struct Input and its operations.  Every operation yields how it ended
   (status), the window and the file position it leaves, and its value. *)

NoValue == <<>>

Res(st, w, p, v) == [status |-> st, win |-> w, fpos |-> p, value |-> v]

\* the `+` and `-` of the build: the wrapped result, and whether the build panics on it
add(x, y, oc) == [val |-> AddU64(x, y).val, panic |-> oc /\ AddU64(x, y).overflow]

sub(x, y, oc) == [val |-> SubU64(x, y).val, panic |-> oc /\ SubU64(x, y).overflow]

create(f) == [offset |-> U64(0), limit |-> U64(Len(f)), cursor |-> U64(0)]

read_u32(f, p, w, bo, oc) ==
    LET end == add(w.cursor, U64(4), oc)
        r == read_exact(f, p, 4)
    IN  IF end.panic THEN Res("Panic", w, p, NoValue)
        ELSE IF ~LtU64(end.val, w.limit) THEN Res("Eof", w, p, NoValue)
        ELSE IF ~r.ok THEN Res("StoreEof", w, r.fpos, NoValue)
        ELSE Res("Ok", [w EXCEPT !.cursor = end.val], r.fpos,
                 IF bo = "Big" THEN u32_from_be_bytes(r.buf)
                               ELSE u32_from_le_bytes(r.buf))

read_u64(f, p, w, bo, oc) ==
    LET end == add(w.cursor, U64(8), oc)
        r == read_exact(f, p, 8)
    IN  IF end.panic THEN Res("Panic", w, p, NoValue)
        ELSE IF ~LtU64(end.val, w.limit) THEN Res("Eof", w, p, NoValue)
        ELSE IF ~r.ok THEN Res("StoreEof", w, r.fpos, NoValue)
        ELSE Res("Ok", [w EXCEPT !.cursor = end.val], r.fpos,
                 IF bo = "Big" THEN u64_from_be_bytes(r.buf)
                               ELSE u64_from_le_bytes(r.buf))

\* read_string that counts the bytes taken from the file before it looks at them
read_string_counting(f, p, w, len, oc) ==
    LET end == add(w.cursor, len, oc)
        r == read_to_string(f, p, len)
        moved == [w EXCEPT !.cursor = AddU64(w.cursor, U64(r.read)).val]
    IN  IF end.panic THEN Res("Panic", w, p, NoValue)
        ELSE IF ~LtU64(end.val, w.limit) THEN Res("Eof", w, p, NoValue)
        ELSE IF ~r.ok THEN Res("InvalidData", moved, r.fpos, NoValue)
        ELSE IF LtU64(U64(r.read), len) THEN Res("Short", moved, r.fpos, NoValue)
        ELSE Res("Ok", [w EXCEPT !.cursor = end.val], r.fpos, r.buf)

read_string(f, p, w, len, oc) ==
    LET end == add(w.cursor, len, oc)
        r == read_to_string(f, p, len)
    IN  IF end.panic THEN Res("Panic", w, p, NoValue)
        ELSE IF ~LtU64(end.val, w.limit) THEN Res("Eof", w, p, NoValue)
        ELSE IF ~r.ok THEN Res("InvalidData", w, r.fpos, NoValue)
        ELSE IF LtU64(U64(r.read), len) THEN Res("Short", w, r.fpos, NoValue)
        ELSE Res("Ok", [w EXCEPT !.cursor = end.val], r.fpos, r.buf)

\* seek with the limit itself let through (pos > limit instead of pos >= limit)
seek_up_to_limit(p, w, pos, oc) ==
    LET target == add(w.offset, pos, oc)
        r == file_seek(target.val)
    IN  IF LtU64(w.limit, pos) THEN Res("Eof", w, p, NoValue)
        ELSE IF target.panic THEN Res("Panic", w, p, NoValue)
        ELSE IF ~r.ok THEN Res("InvalidInput", w, p, NoValue)
        ELSE Res("Ok", [w EXCEPT !.cursor = pos], r.fpos, NoValue)

seek(p, w, pos, oc) ==
    LET target == add(w.offset, pos, oc)
        r == file_seek(target.val)
    IN  IF ~LtU64(pos, w.limit) THEN Res("Eof", w, p, NoValue)
        ELSE IF target.panic THEN Res("Panic", w, p, NoValue)
        ELSE IF ~r.ok THEN Res("InvalidInput", w, p, NoValue)
        ELSE Res("Ok", [w EXCEPT !.cursor = pos], r.fpos, NoValue)

\* ff as a relative move of the file position, with no look at the limit
ff_relative(p, w, len, oc) ==
    LET pos == add(w.cursor, len, oc)
        r == file_seek(AddU64(p, len).val)
    IN  IF pos.panic THEN Res("Panic", w, p, NoValue)
        ELSE IF ~r.ok THEN Res("InvalidInput", w, p, NoValue)
        ELSE Res("Ok", [w EXCEPT !.cursor = pos.val], r.fpos, NoValue)

ff(p, w, len, oc) ==
    LET pos == add(w.cursor, len, oc)
    IN  IF pos.panic THEN Res("Panic", w, p, NoValue)
        ELSE seek(p, w, pos.val, oc)

\* section anchored at the parent's start, whatever its cursor
section_at_start(w, len, oc) ==
    [panic |-> FALSE,
     win |-> [offset |-> w.offset, limit |-> len, cursor |-> U64(0)]]

\* the new window; the parent and the file are left as they are
section(w, len, oc) ==
    LET at == add(w.offset, w.cursor, oc)
    IN  [panic |-> at.panic,
         win |-> [offset |-> at.val, limit |-> len, cursor |-> U64(0)]]

-----------------------------------------------------------------------------
(* quicktime_scan_for_box *)

NoUuid == <<>>

Large == U64(1)

-----------------------------------------------------------------------------
(* the bytes of a container: ISO-BMFF box headers as the scanner reads them *)

Free == <<102, 114, 101, 101>>
Moov == <<109, 111, 111, 118>>
Mvhd == <<109, 118, 104, 100>>
Uuid == <<117, 117, 105, 100>>

be32(n) == <<n \div 16777216, (n \div 65536) % 256, (n \div 256) % 256, n % 256>>

be64(n) == <<0, 0, 0, 0>> \o be32(n)

\* a box as written: its declared size (which a corrupt file may get wrong), its type,
\* the 64-bit form or the plain one, and its payload bytes
Box(large, size, type, payload) ==
    [large |-> large, size |-> size, type |-> type, payload |-> payload]

HeaderLen(b) == IF b.large THEN 16 ELSE 8

BoxLen(b) == HeaderLen(b) + Len(b.payload)

EncodeBox(b) ==
    be32(IF b.large THEN 1 ELSE b.size) \o b.type
        \o (IF b.large THEN be64(b.size) ELSE <<>>) \o b.payload

RECURSIVE EncodeBoxes(_)
EncodeBoxes(bs) ==
    IF bs = <<>> THEN <<>> ELSE EncodeBox(Head(bs)) \o EncodeBoxes(Tail(bs))

\* a box whose declared size is its true size
Sound(large, type, payload) ==
    Box(large, (IF large THEN 16 ELSE 8) + Len(payload), type, payload)

WellFormed(bs) == \A k \in 1..Len(bs) : bs[k].size = BoxLen(bs[k])

\* where the k-th box of a layout starts in the encoded bytes
RECURSIVE BoxStart(_, _)
BoxStart(bs, k) == IF k <= 1 THEN 0 ELSE BoxStart(bs, k - 1) + BoxLen(bs[k - 1])

-----------------------------------------------------------------------------
(* bounds of the model *)

MaxWindows == 2      \* Input values alive at once
MaxBeyond == 1       \* how far past the store's end a skip may carry a cursor

-----------------------------------------------------------------------------
(* the state after construction, and the calls *)

Letters == <<97, 98, 99, 100, 101, 102, 103, 104>>

Text(k) == SubSeq(Letters, 1, k)

\* the scan's call frame: the window and what is wanted, whether it runs on a window
\* fresh from create, where its current pass began, the statement it stands at, and
\* its locals box_length, box_type and msb
Idle ==
    [active |-> FALSE, w |-> 0, name |-> <<>>, uuid |-> NoUuid, first |-> FALSE,
     start |-> U64(0), pc |-> "size", box_length |-> U64(0), box_type |-> <<>>,
     msb |-> U64(0)]

Call(op, i, arg, bo, r) ==
    [op |-> op, w |-> i, arg |-> arg, bo |-> bo, pre |-> wins[i],
     status |-> r.status, value |-> r.value]

\* Input::create over a freshly opened file that holds the given bytes
StartOn(bs, bytes) ==
    /\ layout = bs
    /\ file = bytes
    /\ fpos = U64(0)
    /\ overflow_checks \in BOOLEAN
    /\ wins = <<create(file)>>
    /\ scan = Idle
    /\ last = [op |-> "create", w |-> 1, arg |-> NoValue, bo |-> "-",
               pre |-> create(file), status |-> "Ok",
               value |-> NoValue]

\* ... that holds the boxes of a layout
Start(bs) == StartOn(bs, EncodeBoxes(bs))

\* stores for the window operations: empty, one box of text, and bytes that are no
\* container and start with one no UTF-8 text holds
WindowLayouts == {<<>>, <<Sound(FALSE, Free, Text(1))>>}

OtherStores == {<<255, 97>>}

Init ==
    \/ \E bs \in WindowLayouts : Start(bs)
    \/ \E bytes \in OtherStores : StartOn(<<>>, bytes)

\* a panic ends the program; a running scan holds the only thread
Ready == last.status # "Panic" /\ ~scan.active

Remaining(w) == SubU64(w.limit, w.cursor).val

\* arguments worth trying on a window: small ones, the ones at its boundary, and
\* ones that overflow the sum they enter
Lower(x, k) == IF SubU64(x, U64(k)).overflow THEN x ELSE SubU64(x, U64(k)).val

ReadLengths(w) == {U64(0), U64(1), Remaining(w), Lower(Remaining(w), 1), U64Max}

\* the position of a window that sits k past the file system's largest offset: the
\* first one a seek is refused at for k = 1
PastMaxOffset(w, k) == SubU64(AddU64(MaxOffset, U64(k)).val, w.offset).val

SeekPositions(w) ==
    {U64(0), w.limit, Lower(w.limit, 1), Lower(w.limit, 4), Lower(w.limit, 8),
     PastMaxOffset(w, 1)}

FfLengths(w) == {U64(1), U64(4), Remaining(w), Lower(Remaining(w), 1), U64Max}

SectionLengths(w) == {U64(4), Remaining(w), U64Max}

Done(op, i, arg, bo, r) ==
    /\ wins' = [wins EXCEPT ![i] = r.win]
    /\ fpos' = r.fpos
    /\ last' = Call(op, i, arg, bo, r)
    /\ UNCHANGED <<layout, file, overflow_checks, scan>>

ReadU32(i, bo) ==
    /\ Ready
    /\ Done("read_u32", i, U64(4), bo, read_u32(file, fpos, wins[i], bo, overflow_checks))

ReadU64(i, bo) ==
    /\ Ready
    /\ Done("read_u64", i, U64(8), bo, read_u64(file, fpos, wins[i], bo, overflow_checks))

ReadString(i, len) ==
    /\ Ready
    /\ Done("read_string", i, len, "-",
            read_string(file, fpos, wins[i], len, overflow_checks))

Seek(i, pos) ==
    /\ Ready
    /\ Done("seek", i, pos, "-", seek(fpos, wins[i], pos, overflow_checks))

\* a window longer than its store lets skips carry the cursor on without end: skips
\* that end between MaxBeyond past the store and 2^63 are not taken
InReach(c) == LeU64(c, U64(Len(file) + MaxBeyond)) \/ c[1] >= Limb \div 2

Ff(i, len) ==
    /\ Ready
    /\ InReach(ff(fpos, wins[i], len, overflow_checks).win.cursor)
    /\ Done("ff", i, len, "-", ff(fpos, wins[i], len, overflow_checks))

Section(i, len) ==
    LET s == section(wins[i], len, overflow_checks)
    IN  /\ Ready
        /\ wins' = IF s.panic THEN wins ELSE Append(wins, s.win)
        /\ last' = Call("section", i, len, "-",
                        Res(IF s.panic THEN "Panic" ELSE "Ok", wins[i], fpos, NoValue))
        /\ UNCHANGED <<layout, file, fpos, overflow_checks, scan>>

\* the calls a program makes on the window in use.  Taking a section hands the work to
\* the new window, as the scanner's callers do (main: root, then moov, then mvhd)
Next ==
    LET i == Len(wins)
    IN  \/ \E bo \in {"Big", "Little"} : ReadU32(i, bo)
        \/ \E bo \in {"Big", "Little"} : ReadU64(i, bo)
        \/ \E len \in ReadLengths(wins[i]) : ReadString(i, len)
        \/ \E pos \in SeekPositions(wins[i]) : Seek(i, pos)
        \/ \E len \in FfLengths(wins[i]) : Ff(i, len)
        \/ \E len \in SectionLengths(wins[i]) : Len(wins) < MaxWindows /\ Section(i, len)

Spec == Init /\ [][Next]_vars

-----------------------------------------------------------------------------
(* the scanner's calls *)

MaxPayload == 1      \* longest payload (after any UUID) of a box in a scanned store
MaxPrior == 1        \* most siblings that precede the box a scanned store is about

UuidA == <<U64(1), U64(2)>>
UuidB == <<U64(1), U64(3)>>     \* differs from UuidA in the low half
UuidC == <<U64(4), U64(2)>>     \* differs from UuidA in the high half

UuidBytes(u) == be64(ToNat(u[1])) \o be64(ToNat(u[2]))

\* the 128-bit value an extended-type box starts its payload with
BoxUuid(b) ==
    <<u64_from_be_bytes(SubSeq(b.payload, 1, 8)), u64_from_be_bytes(SubSeq(b.payload, 9, 16))>>

RECURSIVE SeqsUpTo(_, _)
SeqsUpTo(S, n) ==
    IF n = 0 THEN {<<>>}
    ELSE SeqsUpTo(S, n - 1)
         \cup {Append(q, x) : q \in {q \in SeqsUpTo(S, n - 1) : Len(q) = n - 1}, x \in S}

\* well-formed siblings that come first: skipped by a search for moov or for UuidA
PriorBoxes ==
    {Sound(large, Free, Text(k)) : large \in BOOLEAN, k \in 0..MaxPayload}
    \cup {Sound(FALSE, Uuid, UuidBytes(u) \o Text(MaxPayload)) : u \in {UuidB, UuidC}}

SoundBoxes ==
    {Sound(large, type, Text(k)) :
        large \in BOOLEAN, type \in {Free, Moov}, k \in 0..MaxPayload}
    \cup {Sound(large, Uuid, UuidBytes(u) \o Text(k)) :
        large \in BOOLEAN, u \in {UuidA, UuidB}, k \in 0..MaxPayload}

\* declared sizes smaller than the header: 0 and 2..7 (1 announces a large box), large
\* sizes 0..15, and an extended-type box too short to hold its UUID
ShortBoxes ==
    {Box(FALSE, n, Free, Text(MaxPayload)) : n \in {0} \cup 2..7}
    \cup {Box(TRUE, n, Free, Text(MaxPayload)) : n \in 0..15}
    \cup {Box(FALSE, n, Uuid, UuidBytes(UuidA)) : n \in {8, 23}}

\* declared sizes that run past the bytes that follow
LongBoxes ==
    {Box(large, (IF large THEN 16 ELSE 8) + MaxPayload + by, type, Text(MaxPayload)) :
        large \in BOOLEAN, type \in {Free, Moov}, by \in {1, 1000}}

Trailers ==
    {<<>>, <<Sound(FALSE, Free, Text(1))>>,
     <<Sound(FALSE, Uuid, UuidBytes(UuidA) \o Text(1))>>}

ScanLayouts ==
    {before \o <<b>> \o after :
        before \in SeqsUpTo(PriorBoxes, MaxPrior),
        b \in SoundBoxes \cup ShortBoxes \cup LongBoxes,
        after \in Trailers}

ScanInit == \E bs \in ScanLayouts : Start(bs)

Enter(op, i, name, uuid) ==
    /\ Ready
    /\ scan' = [Idle EXCEPT !.active = TRUE, !.w = i, !.name = name, !.uuid = uuid,
                            !.first = (last.op = "create"), !.start = wins[i].cursor]
    /\ last' = [op |-> op, w |-> i, arg |-> name, bo |-> "-", pre |-> wins[i],
                status |-> "Running", value |-> NoValue]
    /\ UNCHANGED <<layout, file, fpos, overflow_checks, wins>>

quicktime_search_box(i, box_name) == Enter("quicktime_search_box", i, box_name, NoUuid)

quicktime_search_uuid_box(i, box_uuid) ==
    Enter("quicktime_search_uuid_box", i, Uuid, box_uuid)

At(pc) == scan.active /\ scan.pc = pc

Step(status) ==
    [op |-> "quicktime_scan_for_box", w |-> scan.w, arg |-> scan.name, bo |-> "-",
     pre |-> wins[scan.w], status |-> status, value |-> NoValue]

\* the scan goes on to its next statement
Go(r, frame) ==
    /\ wins' = [wins EXCEPT ![scan.w] = r.win]
    /\ fpos' = r.fpos
    /\ scan' = frame
    /\ last' = Step("Running")
    /\ UNCHANGED <<layout, file, overflow_checks>>

\* the scan is left by `?` with the error of the call that failed, or by a panic
Leave(r) ==
    /\ wins' = [wins EXCEPT ![scan.w] = r.win]
    /\ fpos' = r.fpos
    /\ scan' = [scan EXCEPT !.active = FALSE]
    /\ last' = Step(r.status)
    /\ UNCHANGED <<layout, file, overflow_checks>>

\* return Ok(self.section(len))
Return(len) ==
    LET s == section(wins[scan.w], len, overflow_checks)
    IN  /\ wins' = IF s.panic THEN wins ELSE Append(wins, s.win)
        /\ scan' = [scan EXCEPT !.active = FALSE]
        /\ last' = Step(IF s.panic THEN "Panic" ELSE "Ok")
        /\ UNCHANGED <<layout, file, fpos, overflow_checks>>

\* the build's box_length - by: the new frame, or the panic
Adjust(r, frame, by) ==
    LET len == sub(frame.box_length, U64(by), overflow_checks)
    IN  IF len.panic THEN Leave(Res("Panic", r.win, r.fpos, NoValue))
        ELSE Go(r, [frame EXCEPT !.box_length = len.val, !.pc = "match"])

\* line 130: let mut box_length = self.read_u32(Big)? as u64
ScanSize ==
    LET r == read_u32(file, fpos, wins[scan.w], "Big", overflow_checks)
    IN  /\ At("size")
        /\ IF r.status # "Ok" THEN Leave(r)
           ELSE Go(r, [scan EXCEPT !.pc = "type", !.start = wins[scan.w].cursor,
                                   !.box_length = r.value])

\* lines 131-133 and 140-145: let box_type = self.read_string(4)?, then the plain
\* header's box_length - 8 unless the box is a large one
ScanType ==
    LET r == read_string(file, fpos, wins[scan.w], U64(4), overflow_checks)
    IN  /\ At("type")
        /\ IF r.status # "Ok" THEN Leave(r)
           ELSE IF scan.box_length = Large
                THEN Go(r, [scan EXCEPT !.pc = "large", !.box_type = r.value])
           ELSE Adjust(r, [scan EXCEPT !.box_type = r.value], 8)

\* lines 134-139: box_length = self.read_u64(Big)?, then box_length - 16
ScanLarge ==
    LET r == read_u64(file, fpos, wins[scan.w], "Big", overflow_checks)
    IN  /\ At("large")
        /\ IF r.status # "Ok" THEN Leave(r)
           ELSE Adjust(r, [scan EXCEPT !.box_length = r.value], 16)

\* lines 146-148: the type is compared; a plain search returns the box
ScanMatch ==
    /\ At("match")
    /\ IF scan.box_type # scan.name
       THEN Go(Res("Ok", wins[scan.w], fpos, NoValue), [scan EXCEPT !.pc = "skip"])
       ELSE IF scan.uuid = NoUuid THEN Return(scan.box_length)
       ELSE Go(Res("Ok", wins[scan.w], fpos, NoValue), [scan EXCEPT !.pc = "msb"])

\* line 150: let msb = self.read_u64(Big)?
ScanMsb ==
    LET r == read_u64(file, fpos, wins[scan.w], "Big", overflow_checks)
    IN  /\ At("msb")
        /\ IF r.status # "Ok" THEN Leave(r)
           ELSE Go(r, [scan EXCEPT !.pc = "lsb", !.msb = r.value])

\* line 151: let lsb = self.read_u64(Big)?; the scan stands at the comparison
ScanLsb ==
    LET r == read_u64(file, fpos, wins[scan.w], "Big", overflow_checks)
    IN  /\ At("lsb")
        /\ IF r.status # "Ok" THEN Leave(r)
           ELSE IF scan.uuid[1] = scan.msb /\ scan.uuid[2] = r.value
                THEN Go(r, [scan EXCEPT !.pc = "found"])
           ELSE Go(r, [scan EXCEPT !.pc = "skip"])

\* lines 153-154: box_length = box_length - 16; return Ok(self.section(box_length))
ScanFound ==
    LET len == sub(scan.box_length, U64(16), overflow_checks)
    IN  /\ At("found")
        /\ IF len.panic THEN Leave(Res("Panic", wins[scan.w], fpos, NoValue))
           ELSE Return(len.val)

\* line 159: self.ff(box_length)?, and the loop starts over
ScanSkip ==
    LET r == ff(fpos, wins[scan.w], scan.box_length, overflow_checks)
    IN  /\ At("skip")
        /\ IF r.status # "Ok" THEN Leave(r)
           ELSE Go(r, [scan EXCEPT !.pc = "size"])

quicktime_scan_for_box ==
    \/ ScanSize
    \/ ScanType
    \/ ScanLarge
    \/ ScanMatch
    \/ ScanMsb
    \/ ScanLsb
    \/ ScanFound
    \/ ScanSkip

\* searches are made on the window in use; a scan, once entered, runs to its end
ScanNext ==
    \/ \E name \in {Free, Moov} :
           Len(wins) < MaxWindows /\ quicktime_search_box(Len(wins), name)
    \/ Len(wins) < MaxWindows /\ quicktime_search_uuid_box(Len(wins), UuidA)
    \/ quicktime_scan_for_box

ScanSpec == ScanInit /\ [][ScanNext]_vars

\* the statements a plain search (no UUID) runs through
AbsentScan ==
    \/ ScanSize
    \/ ScanType
    \/ ScanLarge
    \/ ScanMatch
    \/ ScanSkip

\* a search for a type no box of these stores has, and no payload spells: mvhd
AbsentNext ==
    \/ Len(wins) < MaxWindows /\ quicktime_search_box(Len(wins), Mvhd)
    \/ AbsentScan

\* stores that open with a box of any declared size, sound or too short
AbsentLayouts ==
    {<<b>> \o after :
        b \in ShortBoxes \cup {Sound(large, Free, Text(MaxPayload)) : large \in BOOLEAN},
        after \in Trailers}

AbsentInit == \E bs \in AbsentLayouts : Start(bs)

\* the scan is a running loop: it takes its next step
AbsentSpec == AbsentInit /\ [][AbsentNext]_vars /\ WF_vars(AbsentScan)

-----------------------------------------------------------------------------
(* main: the moov box of the store, then the mvhd box in it *)

MaxContent == 5      \* longest mvhd payload of a store main runs on

\* what a moov box holds: an mvhd box, perhaps after, perhaps before another box
MoovChildren ==
    {before \o <<Sound(large, Mvhd, Text(k))>> \o after :
        before \in {<<>>, <<Sound(FALSE, Free, Text(1))>>},
        large \in BOOLEAN,
        k \in 0..MaxContent,
        after \in {<<>>, <<Sound(FALSE, Free, <<>>)>>}}

\* an 8-byte free box, then the moov box, then perhaps more
MainLayouts ==
    {<<Sound(FALSE, Free, <<>>), Sound(large, Moov, EncodeBoxes(kids))>> \o after :
        large \in BOOLEAN,
        kids \in MoovChildren,
        after \in {<<>>, <<Sound(FALSE, Free, Text(1))>>}}

MainInit == \E bs \in MainLayouts : Start(bs)

\* lines 175 and 176: each search runs on the window before it, once that is there
main ==
    \/ last.op = "create" /\ quicktime_search_box(1, Moov)
    \/ /\ Len(wins) = 2
       /\ last.op = "quicktime_scan_for_box" /\ last.status = "Ok"
       /\ quicktime_search_box(2, Mvhd)

\* what main's caller may go on to do with the mvhd window: read from it
MainNext ==
    \/ main
    \/ AbsentScan
    \/ Len(wins) = 3 /\ (\E bo \in {"Big", "Little"} : ReadU32(3, bo))
    \/ Len(wins) = 3 /\ (\E len \in ReadLengths(wins[3]) : ReadString(3, len))

MainSpec == MainInit /\ [][MainNext]_vars

-----------------------------------------------------------------------------
(* a window and the sections taken from it, used in turn over the one file *)

\* section lengths that stay inside the window the section is taken from
InnerLengths(w) == {Remaining(w), Lower(Remaining(w), 1)} \ {U64(0)}

\* any window alive is operated on next; lengths and positions stay inside the
\* window, so that no call fails half-way through the file
SharedNext ==
    \/ \E i \in 1..Len(wins) : ReadU32(i, "Big")
    \/ \E i \in 1..Len(wins) : ReadU64(i, "Big")
    \/ \E i \in 1..Len(wins) : ReadString(i, U64(4))
    \/ \E i \in 1..Len(wins) : Seek(i, U64(0))
    \/ \E i \in 1..Len(wins) : Ff(i, U64(1))
    \/ \E i \in 1..Len(wins) : \E len \in InnerLengths(wins[i]) :
           Len(wins) < MaxWindows /\ Section(i, len)

\* a store of one box of text
SharedLayouts == {<<Sound(FALSE, Free, Text(1))>>}

SharedInit == \E bs \in SharedLayouts : Start(bs)

SharedSpec == SharedInit /\ [][SharedNext]_vars

-----------------------------------------------------------------------------
(* sections of sections: a chain of windows, each moved on before the next is taken *)

MaxNested == 3       \* windows in a chain of sections, the root included

\* the longest section of w whose every position the file system seeks to, and the
\* one that is one longer
LongestSeekable(w) ==
    SubU64(AddU64(MaxOffset, U64(1)).val, AddU64(w.offset, w.cursor).val).val

NestedLengths(w) ==
    SectionLengths(w) \cup {LongestSeekable(w), AddU64(LongestSeekable(w), U64(1)).val}

NestedPositions(w) ==
    {U64(0), U64(1), w.limit, Lower(w.limit, 1), PastMaxOffset(w, 1)}

NestedNext ==
    LET i == Len(wins)
    IN  \/ ReadU32(i, "Big")
        \/ \E pos \in NestedPositions(wins[i]) : Seek(i, pos)
        \/ \E len \in NestedLengths(wins[i]) : Len(wins) < MaxNested /\ Section(i, len)

NestedSpec == Init /\ [][NestedNext]_vars

-----------------------------------------------------------------------------
(* the window operations: claims C1 to C4, under Spec and NestedSpec *)

IsRead == last.op \in {"read_u32", "read_u64", "read_string"}

\* cursor + n <= limit, on the numbers themselves (no wrapping)
Fits(cursor, n, limit) ==
    ~AddU64(cursor, n).overflow /\ LeU64(AddU64(cursor, n).val, limit)

\* the bytes of the store at absolute positions [at, at + n)
StoreBytes(at, n) == FileBytes(file, at, n)

\* what a successful read returned, as bytes in store order
ReadBytes(c) ==
    IF c.op = "read_string" THEN c.value
    ELSE IF c.op = "read_u32"
         THEN IF c.bo = "Big"
              THEN <<c.value[3] \div 256, c.value[3] % 256,
                     c.value[4] \div 256, c.value[4] % 256>>
              ELSE <<c.value[4] % 256, c.value[4] \div 256,
                     c.value[3] % 256, c.value[3] \div 256>>
    ELSE IF c.bo = "Big"
         THEN <<c.value[1] \div 256, c.value[1] % 256, c.value[2] \div 256,
                c.value[2] % 256, c.value[3] \div 256, c.value[3] % 256,
                c.value[4] \div 256, c.value[4] % 256>>
         ELSE <<c.value[4] % 256, c.value[4] \div 256, c.value[3] % 256,
                c.value[3] \div 256, c.value[2] % 256, c.value[2] \div 256,
                c.value[1] % 256, c.value[1] \div 256>>

\* C1: after any sequence of read_u32, read_u64, read_string, seek, ff and section
\* calls, failed or not, every window's cursor satisfies 0 <= cursor <= limit.
CursorWithinLimit ==
    \A i \in 1..Len(wins) : LeU64(wins[i].cursor, wins[i].limit)

\* a skip has just moved the cursor of a non-empty window to its last position
CursorAtLastPosition ==
    /\ last.op = "ff" /\ last.status = "Ok"
    /\ wins[last.w].limit # U64(0)
    /\ wins[last.w].cursor = Lower(wins[last.w].limit, 1)
    /\ wins[last.w].cursor # last.pre.cursor

\* C2: a read of n >= 1 bytes is not refused by the window whenever cursor + n <= limit
\* (in particular at cursor + n = limit); end-of-data means cursor + n > limit.
ReadAllowedUpToLimit ==
    (IsRead /\ last.arg # U64(0) /\ Fits(last.pre.cursor, last.arg, last.pre.limit))
        => last.status \notin {"Eof", "Panic"}

\* C3 as stated: on every window seek(limit) fails with end-of-data, seek(limit - 1)
\* succeeds and seek(0) succeeds.
SeekBoundaryEveryWindow ==
    last.op = "seek" =>
        /\ last.arg = last.pre.limit => last.status = "Eof"
        /\ last.arg = U64(0) => last.status = "Ok"
        /\ (last.pre.limit # U64(0) /\ last.arg = Lower(last.pre.limit, 1))
               => last.status = "Ok"

\* the window is not empty and its last position is one the file system seeks to
Seekable(w) ==
    /\ w.limit # U64(0)
    /\ ~AddU64(w.offset, w.limit).overflow
    /\ LeU64(AddU64(w.offset, w.limit).val, AddU64(MaxOffset, U64(1)).val)

\* C3, amended: on every non-empty window that ends within the file system's largest
\* offset (its last position is at most 2^44 - 4096), seek(limit)
\* fails with end-of-data, seek(limit - 1) and seek(0) succeed, and a read that follows
\* seek(0) on that window and succeeds returns the store's bytes from absolute position
\* offset on.
SeekBoundary ==
    [][/\ (last'.op = "seek" /\ last' # last /\ last'.arg = last'.pre.limit)
              => last'.status = "Eof"
       /\ (last'.op = "seek" /\ Seekable(last'.pre)
             /\ last'.arg \in {U64(0), Lower(last'.pre.limit, 1)})
              => /\ last'.status = "Ok"
                 /\ wins'[last'.w].cursor = last'.arg
       /\ (/\ last.op = "seek" /\ last.status = "Ok" /\ last.arg = U64(0)
           /\ Seekable(last.pre)
           /\ last'.op \in {"read_u32", "read_u64", "read_string"}
           /\ last'.w = last.w /\ last'.status = "Ok")
              => ReadBytes(last') = StoreBytes(last.pre.offset, last'.arg)]_vars

\* seek(limit - 1) has just succeeded on a section that does not start the store and
\* ends on the last position the file system seeks to
SeekToLastPosition ==
    /\ last.op = "seek" /\ last.status = "Ok"
    /\ Seekable(last.pre)
    /\ last.pre.offset # U64(0)
    /\ last.arg = Lower(last.pre.limit, 1)
    /\ last.arg # U64(0)
    /\ fpos = MaxOffset

\* C4: section(length), for a length >= 1 that fits in the parent's remaining bytes,
\* followed by reading length bytes from the new window succeeds and yields the bytes
\* that reading length bytes from the parent, where the section was taken, yields.
SectionReadsAsParent ==
    [][(/\ last.op = "section" /\ last.status = "Ok"
        /\ last.arg # U64(0) /\ LeU64(last.arg, Remaining(last.pre))
        /\ last'.op = "read_string" /\ last'.w = Len(wins) /\ last'.arg = last.arg
        /\ last'.pre = wins[Len(wins)])
           => /\ last'.status = "Ok"
              /\ last'.value
                   = StoreBytes(AddU64(last.pre.offset, last.pre.cursor).val, last.arg)]_vars

-----------------------------------------------------------------------------
(* the scanner: claims C5 to C9, under ScanSpec and AbsentSpec *)

Scanning == last.op = "quicktime_scan_for_box"

Ended == Scanning /\ ~scan.active

\* the scan runs, or ran, from the start of the whole store
OnRoot == Scanning /\ scan.first /\ scan.w = 1

Errors == {"Eof", "StoreEof", "Short", "InvalidData", "InvalidInput"}

\* the current pass began at the k-th box, and the boxes before it are as declared
PassAt(k) ==
    /\ k \in 1..Len(layout)
    /\ scan.start = U64(BoxStart(layout, k))
    /\ \A j \in 1..(k - 1) : layout[j].size = BoxLen(layout[j])

\* x1 + x2 <= y1 + y2, on the numbers themselves
SumLe(x1, x2, y1, y2) ==
    LET x == AddU64(x1, x2)
        y == AddU64(y1, y2)
    IN  \/ ~x.overflow /\ y.overflow
        \/ x.overflow = y.overflow /\ LeU64(x.val, y.val)

\* C5: in a UUID search, a sibling of type uuid with another UUID is skipped by its
\* remaining payload only: the next pass starts on the next sibling's header, and a
\* later sibling with the wanted UUID is found.
UuidMismatchSkipsToNextSibling ==
    (OnRoot /\ scan.uuid # NoUuid /\ WellFormed(layout)) =>
        \A k \in 1..(Len(layout) - 1) :
            (/\ PassAt(k)
             /\ layout[k].type = Uuid /\ BoxUuid(layout[k]) # scan.uuid
             /\ \E j \in (k + 1)..Len(layout) :
                    layout[j].type = Uuid /\ BoxUuid(layout[j]) = scan.uuid)
            => /\ (scan.active /\ scan.pc = "size")
                      => wins[1].cursor = U64(BoxStart(layout, k + 1))
               /\ (~scan.active) => last.status = "Ok"

\* the four bytes of the name occur nowhere in the store
NotInStore(name) ==
    \A k \in 1..Len(file) : FileBytes(file, U64(k - 1), U64(4)) # name

\* C6: a scan for a box that is not present ends, and without a section: it never
\* loops forever.
ScanForAbsentBoxEnds ==
    (scan.active /\ NotInStore(scan.name)) ~> (~scan.active /\ last.status # "Ok")

\* C7: a box that declares less than its own header (a 32-bit size other than 1 below
\* 8, a large size below 16, or a matched uuid box with less than 16 bytes of payload)
\* makes the scan return an error: the scan never gets past the subtraction.
UndersizedBoxIsAnError ==
    OnRoot =>
        \A k \in 1..Len(layout) :
            /\ (PassAt(k) /\ layout[k].size < HeaderLen(layout[k]))
                   => /\ scan.active => scan.pc \in {"type", "large"}
                      /\ (~scan.active) => last.status \in Errors
            /\ (/\ PassAt(k) /\ scan.uuid # NoUuid
                /\ layout[k].type = Uuid /\ BoxUuid(layout[k]) = scan.uuid
                /\ layout[k].size >= HeaderLen(layout[k])
                /\ layout[k].size - HeaderLen(layout[k]) < 16)
                   => ((~scan.active) => last.status \in Errors)

\* C8: a window returned by a scan lies inside the window that was scanned, and so
\* inside the store.
ReturnedWindowInsideScanned ==
    (Ended /\ last.status = "Ok") =>
        LET child == wins[Len(wins)]
            parent == wins[scan.w]
        IN  /\ SumLe(child.offset, child.limit, parent.offset, parent.limit)
            /\ SumLe(child.offset, child.limit, U64(0), U64(Len(file)))

\* C9: in well-formed siblings whose N-th is the first of the wanted type, a plain
\* search passes over the N - 1 prior siblings header by header and returns the
\* payload of the N-th: offset at the payload's start, limit the declared size less
\* the header.
PlainSearchFindsNthSibling ==
    (OnRoot /\ scan.uuid = NoUuid /\ WellFormed(layout)) =>
        \A n \in 1..Len(layout) :
            (/\ layout[n].type = scan.name
             /\ \A j \in 1..(n - 1) : layout[j].type # scan.name)
            => /\ \E k \in 1..n : scan.start = U64(BoxStart(layout, k))
               /\ (scan.active /\ scan.pc = "size")
                      => \E k \in 1..n : wins[1].cursor = U64(BoxStart(layout, k))
               /\ (~scan.active) =>
                      /\ last.status = "Ok"
                      /\ wins[Len(wins)].offset
                             = U64(BoxStart(layout, n) + HeaderLen(layout[n]))
                      /\ wins[Len(wins)].limit
                             = U64(layout[n].size - HeaderLen(layout[n]))
                      /\ wins[Len(wins)].cursor = U64(0)

-----------------------------------------------------------------------------
(* main: claim C10, under MainSpec *)

\* the boxes the store's moov box was written from
MoovKids == CHOOSE kids \in MoovChildren : EncodeBoxes(kids) = layout[2].payload

MvhdAt == CHOOSE k \in 1..Len(MoovKids) : MoovKids[k].type = Mvhd

\* where the payload of the mvhd box starts in the store
MvhdPayloadStart ==
    BoxLen(layout[1]) + HeaderLen(layout[2]) + BoxStart(MoovKids, MvhdAt)
        + HeaderLen(MoovKids[MvhdAt])

\* C10: over an 8-byte free box followed by a moov box that holds an mvhd box, the
\* search for moov and then, in the window it returns, for mvhd succeeds; the window
\* returned has the declared mvhd payload length as its limit, and the first bytes
\* read from it are the first bytes of the mvhd payload.
MainFindsMvhd ==
    LET mvhd == MoovKids[MvhdAt]
    IN  /\ Ended => last.status = "Ok"
        /\ Len(wins) = 3 =>
               /\ wins[3].offset = U64(MvhdPayloadStart)
               /\ wins[3].limit = U64(mvhd.size - HeaderLen(mvhd))
        /\ (/\ Len(wins) = 3 /\ IsRead /\ last.w = 3
            /\ last.pre.cursor = U64(0)
            /\ last.arg # U64(0) /\ LeU64(last.arg, U64(Len(mvhd.payload))))
               => /\ last.status = "Ok"
                  /\ ReadBytes(last) = SubSeq(mvhd.payload, 1, ToNat(last.arg))

-----------------------------------------------------------------------------
(* windows over one store: claim C11, under SharedSpec *)

\* C11: however the calls on a window and on a section of it are interleaved, a
\* successful read of n bytes returns the store's bytes at the window's own
\* [offset + cursor, offset + cursor + n): calls on one window do not change what the
\* other reads next.
ReadsOwnBytes ==
    (IsRead /\ last.status = "Ok") =>
        ReadBytes(last)
            = StoreBytes(AddU64(last.pre.offset, last.pre.cursor).val, last.arg)

-----------------------------------------------------------------------------
(* the window operations: claims C12 and C14 to C16, under Spec and NestedSpec *)

\* C12: section(length) returns a window with offset = parent.offset + parent.cursor
\* (the u64 sum), limit = length and cursor 0; the parent's offset, limit and cursor
\* and the file's position are as they were.
SectionFrame ==
    [][(last'.op = "section" /\ Len(wins') # Len(wins)) =>
          LET parent == wins[last'.w]
              at == AddU64(parent.offset, parent.cursor)
          IN  /\ last'.status = "Ok" /\ last'.pre = parent
              /\ wins' = Append(wins, [offset |-> at.val, limit |-> last'.arg,
                                       cursor |-> U64(0)])
              /\ fpos' = fpos]_vars

\* a section has been taken from a window that is itself a section, with its cursor
\* moved on from 0
SectionOfMovedSection ==
    /\ last.op = "section" /\ last.status = "Ok"
    /\ Len(wins) = last.w + 1
    /\ last.pre.offset # U64(0) /\ last.pre.cursor # U64(0)
    /\ wins[Len(wins)].offset = AddU64(last.pre.offset, last.pre.cursor).val

\* C14: ff(length) is seek(cursor + length) on the sum of the numbers themselves: it
\* succeeds, with the cursor at cursor + length, only when cursor + length < limit, and
\* fails with end-of-data otherwise; the cursor never moves backwards, also when the
\* sum exceeds 64 bits.
FfIsSeekOnSum ==
    last.op = "ff" =>
        LET sum == AddU64(last.pre.cursor, last.arg)
            below == ~sum.overflow /\ LtU64(sum.val, last.pre.limit)
        IN  /\ last.status = "Ok" => (below /\ wins[last.w].cursor = sum.val)
            /\ (~below) => last.status = "Eof"
            /\ LeU64(last.pre.cursor, wins[last.w].cursor)

WindowOps == {"read_u32", "read_u64", "read_string", "seek", "ff"}

\* C15: on a single chain of windows (each section taken over by the calls that
\* follow), after every call, failed ones included, the file's position is offset +
\* cursor of the window in use.
PositionFollowsCursor ==
    LET w == wins[Len(wins)]
    IN  last.status # "Panic" => fpos = AddU64(w.offset, w.cursor).val

\* C16: a read_u32, read_u64, read_string, seek or ff call that fails leaves the
\* window's offset, limit and cursor as they were before the call.
FailedCallKeepsWindow ==
    (last.op \in WindowOps /\ last.status # "Ok") => wins[last.w] = last.pre

\* a read_string has failed after bytes were taken from the file
FailedAfterReading ==
    /\ last.op = "read_string" /\ last.status \in {"InvalidData", "Short"}
    /\ last.pre.cursor # U64(0)
    /\ fpos # AddU64(last.pre.offset, last.pre.cursor).val

-----------------------------------------------------------------------------
(* the scanner: claim C13, under ScanSpec *)

\* C13: in a UUID search over well-formed siblings, the first box of type uuid, when
\* both halves of its UUID are the wanted ones, is returned as a section that starts
\* right after the 16 UUID bytes and has the payload length less 16 as its limit,
\* also when the payload is the 16 UUID bytes and nothing more.
UuidMatchReturnsRest ==
    (OnRoot /\ scan.uuid # NoUuid /\ WellFormed(layout)) =>
        \A n \in 1..Len(layout) :
            (/\ layout[n].type = Uuid /\ BoxUuid(layout[n]) = scan.uuid
             /\ \A j \in 1..(n - 1) : layout[j].type # Uuid)
            => ((~scan.active) =>
                   /\ last.status = "Ok"
                   /\ wins[Len(wins)].offset
                          = U64(BoxStart(layout, n) + HeaderLen(layout[n]) + 16)
                   /\ wins[Len(wins)].limit
                          = U64(layout[n].size - HeaderLen(layout[n]) - 16)
                   /\ wins[Len(wins)].cursor = U64(0))

====
